---------------------------- MODULE Spec2Model ----------------------------
(***************************************************************************)
(* A model of jwk_kit: the JwkBuilder / Jwk / Jwks assembler of            *)
(* src/src/jwk.rs, the serialised form of a Jwk, and the PEM component     *)
(* extractors.                                                             *)
(*                                                                         *)
(* Rust values are encoded as follows.                                     *)
(*   Option<T>      None is <<>>, Some(v) is <<v>>                         *)
(*   Result<T, E>   Ok(v) is [ok |-> TRUE, val |-> v],                     *)
(*                  Err(er) is [ok |-> FALSE, err |-> er]                  *)
(*   JwkError       a tuple: <<"MissingRsaParams">>,                       *)
(*                  <<"UnsupportedKeyType", s>>, ...                       *)
(*   String         a TLA+ string                                          *)
(*   Vec<T>         a sequence                                             *)
(***************************************************************************)
EXTENDS Naturals, Sequences, FiniteSets

(***************************************************************************)
(* Bounds of the model.                                                    *)
(***************************************************************************)
\* the longest sequence of setter calls made on one builder
MaxCalls == 9
\* the longest vector handed to create_jwks
MaxKeys == 2
\* the number of extractor calls running at the same time
NumThreads == 2

\* the strings handed to the setters
Values == {"", "v1"}

\* the key type strings handed to JwkBuilder::new
KeyTypes == {"RSA", "EC", "OCT", "rsa", ""}

(***************************************************************************)
(* Option and Result.                                                      *)
(***************************************************************************)
None == <<>>
Some(v) == <<v>>
is_none(o) == o = None
is_some(o) == o # None
Ok(v) == [ok |-> TRUE, val |-> v]
Err(er) == [ok |-> FALSE, err |-> er]

(***************************************************************************)
(* JwkError (src/src/error.rs).                                            *)
(***************************************************************************)
MissingRsaParams == <<"MissingRsaParams">>
MissingEcParams == <<"MissingEcParams">>
MissingEcX == <<"MissingEcX">>
MissingEcY == <<"MissingEcY">>
UnsupportedKeyType(s) == <<"UnsupportedKeyType", s>>
KeyGenerationFailed == <<"KeyGenerationFailed">>

(***************************************************************************)
(* JwkBuilder: new, the nine setters, build.                               *)
(***************************************************************************)
\* the Option<String> fields of Jwk and of JwkBuilder, in declaration order
OptFields == <<"use_", "alg", "kid", "n", "e", "crv", "x", "y", "d">>
OptFieldSet == {OptFields[i] : i \in 1..Len(OptFields)}

new(kty) ==
    [kty |-> kty, use_ |-> None, alg |-> None, kid |-> None, n |-> None,
     e |-> None, crv |-> None, x |-> None, y |-> None, d |-> None]

use_(self, value) == [self EXCEPT !.use_ = Some(value)]
alg(self, value) == [self EXCEPT !.alg = Some(value)]
kid(self, value) == [self EXCEPT !.kid = Some(value)]
\* n as a setter that keeps a value already stored
n_keeps_first(self, value) ==
    IF self.n = None THEN [self EXCEPT !.n = Some(value)] ELSE self
n(self, value) == [self EXCEPT !.n = Some(value)]
\* e taking the modulus away with it
e_clears_n(self, value) == [self EXCEPT !.e = <<value>>, !.n = <<>>]
e(self, value) == [self EXCEPT !.e = Some(value)]
crv(self, value) == [self EXCEPT !.crv = Some(value)]
x(self, value) == [self EXCEPT !.x = Some(value)]
y(self, value) == [self EXCEPT !.y = Some(value)]
d(self, value) == [self EXCEPT !.d = Some(value)]

\* JwkOf keeping only the fields of the builder's key type
JwkOf_of_key_type(self) ==
    [kty |-> self.kty, use_ |-> self.use_, alg |-> self.alg, kid |-> self.kid,
     n |-> IF self.kty = "RSA" THEN self.n ELSE None,
     e |-> IF self.kty = "RSA" THEN self.e ELSE None,
     crv |-> IF self.kty = "EC" THEN self.crv ELSE None,
     x |-> IF self.kty = "EC" THEN self.x ELSE None,
     y |-> IF self.kty = "EC" THEN self.y ELSE None,
     d |-> self.d]
\* the Jwk struct literal at the end of build: every field moved over
JwkOf(self) ==
    [kty |-> self.kty, use_ |-> self.use_, alg |-> self.alg, kid |-> self.kid,
     n |-> self.n, e |-> self.e, crv |-> self.crv, x |-> self.x,
     y |-> self.y, d |-> self.d]

\* build with the RSA check failing only when both n and e are missing
build_rsa_both_missing(self) ==
    IF self.kty = "RSA"
    THEN IF self.n = None /\ self.e = None
         THEN [ok |-> FALSE, err |-> MissingRsaParams]
         ELSE [ok |-> TRUE, val |-> self]
    ELSE IF self.kty = "EC"
    THEN IF self.crv = None \/ self.x = None \/ self.y = None
         THEN [ok |-> FALSE, err |-> MissingEcParams]
         ELSE [ok |-> TRUE, val |-> self]
    ELSE [ok |-> FALSE, err |-> UnsupportedKeyType(self.kty)]
\* build with the EC check leaving out crv
build_ec_without_crv(self) ==
    IF self.kty = "RSA"
    THEN IF self.n = None \/ self.e = None
         THEN [ok |-> FALSE, err |-> MissingRsaParams]
         ELSE [ok |-> TRUE, val |-> self]
    ELSE IF self.kty = "EC"
    THEN IF self.x = None \/ self.y = None
         THEN [ok |-> FALSE, err |-> MissingEcParams]
         ELSE [ok |-> TRUE, val |-> self]
    ELSE [ok |-> FALSE, err |-> UnsupportedKeyType(self.kty)]
\* build letting a key type through once all five key fields are set
build_any_type_when_full(self) ==
    IF self.kty = "RSA"
    THEN IF self.n = None \/ self.e = None
         THEN [ok |-> FALSE, err |-> MissingRsaParams]
         ELSE [ok |-> TRUE, val |-> self]
    ELSE IF self.kty = "EC"
    THEN IF self.crv = None \/ self.x = None \/ self.y = None
         THEN [ok |-> FALSE, err |-> MissingEcParams]
         ELSE [ok |-> TRUE, val |-> self]
    ELSE IF self.n # None /\ self.e # None /\ self.crv # None
            /\ self.x # None /\ self.y # None
    THEN [ok |-> TRUE, val |-> self]
    ELSE [ok |-> FALSE, err |-> UnsupportedKeyType(self.kty)]
\* build without the EC check
build_ec_unchecked(self) ==
    IF self.kty = "RSA"
    THEN IF self.n = None \/ self.e = None
         THEN [ok |-> FALSE, err |-> MissingRsaParams]
         ELSE [ok |-> TRUE, val |-> self]
    ELSE IF self.kty = "EC"
    THEN [ok |-> TRUE, val |-> self]
    ELSE [ok |-> FALSE, err |-> UnsupportedKeyType(self.kty)]
\* build reading what the fields hold: an empty string is not base64url, a
\* curve other than P-256 is not supported
build_validating(self) ==
    IF self.kty = "RSA"
    THEN IF self.n = <<>> \/ self.e = <<>>
         THEN [ok |-> FALSE, err |-> MissingRsaParams]
         ELSE IF self.n = <<"">> \/ self.e = <<"">>
         THEN [ok |-> FALSE, err |-> <<"Base64EncodingError">>]
         ELSE [ok |-> TRUE, val |-> JwkOf(self)]
    ELSE IF self.kty = "EC"
    THEN IF self.crv = <<>> \/ self.x = <<>> \/ self.y = <<>>
         THEN [ok |-> FALSE, err |-> MissingEcParams]
         ELSE IF self.crv # <<"P-256">>
         THEN [ok |-> FALSE, err |-> <<"UnsupportedCurve", self.crv[1]>>]
         ELSE [ok |-> TRUE, val |-> JwkOf(self)]
    ELSE [ok |-> FALSE, err |-> UnsupportedKeyType(self.kty)]
build(self) ==
    IF self.kty = "RSA"
    THEN IF is_none(self.n) \/ is_none(self.e)
         THEN Err(MissingRsaParams)
         ELSE Ok(JwkOf(self))
    ELSE IF self.kty = "EC"
    THEN IF is_none(self.crv) \/ is_none(self.x) \/ is_none(self.y)
         THEN Err(MissingEcParams)
         ELSE Ok(JwkOf(self))
    ELSE Err(UnsupportedKeyType(self.kty))

(***************************************************************************)
(* The serialised form of a Jwk (serde derive on the struct): a JSON       *)
(* object, here the sequence of its <<key, value>> members in field order. *)
(* kty is always written; use_ is renamed to "use"; a field carrying       *)
(* skip_serializing_if = "Option::is_none" is left out when it is None.    *)
(* An Option that is written serialises to null when None.                 *)
(***************************************************************************)
JsonNull == <<"null">>
JsonString(s) == <<"string", s>>
JsonOfOption(o) == IF is_none(o) THEN JsonNull ELSE JsonString(o[1])

\* #[serde(rename = "use")] on use_; every other field keeps its name
JsonKey(f) == IF f = "use_" THEN "use" ELSE f

\* a field without skip_serializing_if: always written
skip_serializing_if_absent(o) == FALSE
\* skip_serializing_if = "Option::is_none"
skip_serializing_if(o) == is_none(o)

RECURSIVE SerializeFields(_, _)
SerializeFields(jwk, i) ==
    IF i > Len(OptFields) THEN <<>>
    ELSE LET f == OptFields[i]
         IN  (IF skip_serializing_if(jwk[f]) THEN <<>>
              ELSE << <<JsonKey(f), JsonOfOption(jwk[f])>> >>)
             \o SerializeFields(jwk, i + 1)

serialize(jwk) == << <<"kty", JsonString(jwk.kty)>> >> \o SerializeFields(jwk, 1)

(***************************************************************************)
(* create_jwks.                                                            *)
(***************************************************************************)
\* create_jwks keeping one key per kid
RECURSIVE create_jwks_unique_kid(_)
create_jwks_unique_kid(ks) ==
    IF Len(ks) = 0 THEN [keys |-> <<>>]
    ELSE LET front == create_jwks_unique_kid(SubSeq(ks, 1, Len(ks) - 1)).keys
             last == ks[Len(ks)]
         IN  IF \E i \in 1..Len(front) : front[i].kid = last.kid
             THEN [keys |-> front]
             ELSE [keys |-> Append(front, last)]
create_jwks(ks) == [keys |-> ks]

(***************************************************************************)
(* PEM texts and the library calls the extractors make.                    *)
(*                                                                         *)
(* A text is [label, der, truncated]: the label of its BEGIN/END lines,    *)
(* the DER document its base64 body encodes, and whether the text was cut  *)
(* short.  A DER document is a SubjectPublicKeyInfo ("spki") or a PKCS#8   *)
(* PrivateKeyInfo ("pkcs8") of an algorithm, or "junk".                    *)
(* A PKCS#8 document is written with the public part of its key only: the  *)
(* private part is read by no function of the crate.                       *)
(***************************************************************************)
RsaSpki(modulus, exponent) ==
    [form |-> "spki", algorithm |-> "rsaEncryption", n |-> modulus, e |-> exponent]
RsaPkcs8(modulus, exponent) ==
    [form |-> "pkcs8", algorithm |-> "rsaEncryption", n |-> modulus, e |-> exponent]
\* an EC document names its curve and carries the SEC1 point [x, y], each
\* coordinate a sequence of bytes (none for the point at infinity)
EcSpki(curve, point) ==
    [form |-> "spki", algorithm |-> "id-ecPublicKey", curve |-> curve, point |-> point]
EcPkcs8(curve, point) ==
    [form |-> "pkcs8", algorithm |-> "id-ecPublicKey", curve |-> curve, point |-> point]
Junk == [form |-> "junk", algorithm |-> ""]
PemText(label, der, truncated) ==
    [label |-> label, der |-> der, truncated |-> truncated]

\* pkcs8::DecodePublicKey::from_public_key_pem for RsaPublicKey: the PEM must
\* decode whole, carry the label PUBLIC KEY, and hold a SubjectPublicKeyInfo
\* of rsaEncryption.  Ok(RsaPublicKey) or Err(the library's error).
RsaPublicKey_from_public_key_pem(text) ==
    IF /\ ~text.truncated
       /\ text.label = "PUBLIC KEY"
       /\ text.der.form = "spki"
       /\ text.der.algorithm = "rsaEncryption"
    THEN Ok([n |-> text.der.n, e |-> text.der.e])
    ELSE Err(<<"spki::Error">>)

\* BigUint::to_bytes_be: the big-endian bytes, no leading zero byte; zero is
\* the single byte 0.
\* BigUint::to_bytes_le: the same bytes, least significant first
RECURSIVE to_bytes_le(_)
to_bytes_le(v) ==
    IF v < 256 THEN <<v>> ELSE <<v % 256>> \o to_bytes_le(v \div 256)
RECURSIVE to_bytes_be(_)
to_bytes_be(v) ==
    IF v < 256 THEN <<v>> ELSE to_bytes_be(v \div 256) \o <<v % 256>>

\* the URL-safe base64 alphabet
UrlSafeAlphabet ==
    <<"A", "B", "C", "D", "E", "F", "G", "H", "I", "J", "K", "L", "M",
      "N", "O", "P", "Q", "R", "S", "T", "U", "V", "W", "X", "Y", "Z",
      "a", "b", "c", "d", "e", "f", "g", "h", "i", "j", "k", "l", "m",
      "n", "o", "p", "q", "r", "s", "t", "u", "v", "w", "x", "y", "z",
      "0", "1", "2", "3", "4", "5", "6", "7", "8", "9", "-", "_">>
Sextet(i) == UrlSafeAlphabet[i + 1]

\* URL_SAFE_NO_PAD.encode: three bytes give four characters; a rest of one
\* byte gives two, of two bytes three; no '=' is appended.
RECURSIVE URL_SAFE_NO_PAD_encode(_)
URL_SAFE_NO_PAD_encode(bytes) ==
    IF Len(bytes) = 0 THEN ""
    ELSE IF Len(bytes) = 1
    THEN Sextet(bytes[1] \div 4) \o Sextet((bytes[1] % 4) * 16)
    ELSE IF Len(bytes) = 2
    THEN Sextet(bytes[1] \div 4)
         \o Sextet((bytes[1] % 4) * 16 + bytes[2] \div 16)
         \o Sextet((bytes[2] % 16) * 4)
    ELSE Sextet(bytes[1] \div 4)
         \o Sextet((bytes[1] % 4) * 16 + bytes[2] \div 16)
         \o Sextet((bytes[2] % 16) * 4 + bytes[3] \div 64)
         \o Sextet(bytes[3] % 64)
         \o URL_SAFE_NO_PAD_encode(SubSeq(bytes, 4, Len(bytes)))

(***************************************************************************)
(* extract_rsa_n_e (src/src/jwk.rs).                                       *)
(***************************************************************************)
\* extract_rsa_n_e reporting a parse failure as RsaParseError
extract_rsa_n_e_parse_error(pem_data) ==
    LET parsed == RsaPublicKey_from_public_key_pem(pem_data)
    IN  IF ~parsed.ok THEN [ok |-> FALSE, err |-> <<"RsaParseError">>]
        ELSE [ok |-> TRUE,
              val |-> <<URL_SAFE_NO_PAD_encode(to_bytes_be(parsed.val.n)),
                        URL_SAFE_NO_PAD_encode(to_bytes_be(parsed.val.e))>>]
extract_rsa_n_e(pem_data) ==
    LET parsed == RsaPublicKey_from_public_key_pem(pem_data)
    IN  IF ~parsed.ok THEN Err(MissingRsaParams)
        ELSE LET n_bytes == to_bytes_be(parsed.val.n)
                 e_bytes == to_bytes_be(parsed.val.e)
             IN  IF Len(n_bytes) = 0 \/ Len(e_bytes) = 0
                 THEN Err(MissingRsaParams)
                 ELSE Ok(<<URL_SAFE_NO_PAD_encode(n_bytes),
                           URL_SAFE_NO_PAD_encode(e_bytes)>>)

(***************************************************************************)
(* Points of P-256 and the p256 calls of extract_es256_coordinates.        *)
(***************************************************************************)
\* the base point G of P-256, 2G, and two multiples with a coordinate whose
\* first byte is 0 (379G: x, 43G: y)
P256_G ==
    [x |-> <<107, 23, 209, 242, 225, 44, 66, 71, 248, 188, 230, 229, 99, 164,
             64, 242, 119, 3, 125, 129, 45, 235, 51, 160, 244, 161, 57, 69,
             216, 152, 194, 150>>,
     y |-> <<79, 227, 66, 226, 254, 26, 127, 155, 142, 231, 235, 74, 124, 15,
             158, 22, 43, 206, 51, 87, 107, 49, 94, 206, 203, 182, 64, 104,
             55, 191, 81, 245>>]
P256_2G ==
    [x |-> <<124, 242, 123, 24, 141, 3, 79, 126, 138, 82, 56, 3, 4, 181, 26,
             195, 192, 137, 105, 226, 119, 242, 27, 53, 166, 11, 72, 252, 71,
             102, 153, 120>>,
     y |-> <<7, 119, 85, 16, 219, 142, 208, 64, 41, 61, 154, 198, 159, 116,
             48, 219, 186, 125, 173, 230, 60, 233, 130, 41, 158, 4, 183, 157,
             34, 120, 115, 209>>]
P256_379G ==
    [x |-> <<0, 85, 67, 137, 74, 243, 208, 14, 215, 215, 64, 171, 219, 215,
             92, 150, 176, 104, 119, 183, 135, 219, 95, 112, 238, 167, 139,
             144, 168, 215, 192, 10>>,
     y |-> <<187, 76, 133, 163, 216, 234, 41, 239, 170, 250, 36, 64, 105, 18,
             221, 132, 213, 177, 77, 195, 43, 246, 86, 239, 108, 107, 213,
             138, 93, 148, 63, 146>>]
P256_43G ==
    [x |-> <<152, 106, 226, 80, 111, 31, 241, 4, 208, 66, 48, 134, 29, 143,
             75, 73, 143, 75, 196, 198, 208, 9, 179, 15, 117, 68, 220, 18,
             155, 130, 210, 141>>,
     y |-> <<0, 60, 204, 192, 166, 70, 14, 10, 227, 40, 164, 217, 125, 60,
             123, 97, 216, 111, 198, 40, 156, 24, 159, 37, 37, 17, 12, 68,
             27, 176, 126, 151>>]
P256Points == {P256_G, P256_2G, P256_379G, P256_43G}
\* G with the last byte of y changed: on no curve point
P256_OffCurve == [P256_G EXCEPT !.y[32] = 244]

\* the point at infinity, whose SEC1 encoding has no coordinates
P256_Identity == [x |-> <<>>, y |-> <<>>]

\* the curve equation, decided for the points the model uses
is_on_curve(point) == point \in P256Points

\* pkcs8::DecodePublicKey::from_public_key_pem for p256::PublicKey: the PEM
\* must decode whole, carry the label PUBLIC KEY, and hold a
\* SubjectPublicKeyInfo of id-ecPublicKey on P-256 whose point is on the
\* curve and is not the identity.
PublicKey_from_public_key_pem(text) ==
    IF /\ ~text.truncated
       /\ text.label = "PUBLIC KEY"
       /\ text.der.form = "spki"
       /\ text.der.algorithm = "id-ecPublicKey"
       /\ text.der.curve = "P-256"
       /\ text.der.point # P256_Identity
       /\ is_on_curve(text.der.point)
    THEN Ok([point |-> text.der.point])
    ELSE Err(<<"spki::Error">>)

\* ToEncodedPoint::to_encoded_point(compress): the SEC1 encoding of the
\* point of a PublicKey, with y only when not compressed
to_encoded_point(public_key, compress) ==
    IF compress
    THEN [tag |-> "compressed", x |-> public_key.point.x]
    ELSE [tag |-> "uncompressed", x |-> public_key.point.x, y |-> public_key.point.y]

\* EncodedPoint::x and EncodedPoint::y: None for the identity, y None for a
\* compressed point too
EncodedPoint_x(encoded_point) ==
    IF encoded_point.tag = "identity" THEN None ELSE Some(encoded_point.x)
EncodedPoint_y(encoded_point) ==
    IF encoded_point.tag = "uncompressed" THEN Some(encoded_point.y) ELSE None

(***************************************************************************)
(* extract_es256_coordinates (src/src/jwk.rs).                             *)
(***************************************************************************)
\* extract_es256_coordinates asking for the compressed point
extract_es256_coordinates_compressed(pem_data) ==
    LET parsed == PublicKey_from_public_key_pem(pem_data)
    IN  IF ~parsed.ok THEN [ok |-> FALSE, err |-> MissingEcParams]
        ELSE LET encoded_point == to_encoded_point(parsed.val, TRUE)
                 px == EncodedPoint_x(encoded_point)
                 py == EncodedPoint_y(encoded_point)
             IN  IF px = None THEN [ok |-> FALSE, err |-> MissingEcX]
                 ELSE IF py = None THEN [ok |-> FALSE, err |-> MissingEcY]
                 ELSE [ok |-> TRUE,
                       val |-> <<URL_SAFE_NO_PAD_encode(px[1]),
                                 URL_SAFE_NO_PAD_encode(py[1])>>]
extract_es256_coordinates(pem_data) ==
    LET parsed == PublicKey_from_public_key_pem(pem_data)
    IN  IF ~parsed.ok THEN Err(MissingEcParams)
        ELSE LET encoded_point == to_encoded_point(parsed.val, FALSE)
                 px == EncodedPoint_x(encoded_point)
                 py == EncodedPoint_y(encoded_point)
             IN  IF is_none(px) THEN Err(MissingEcX)
                 ELSE IF is_none(py) THEN Err(MissingEcY)
                 ELSE Ok(<<URL_SAFE_NO_PAD_encode(px[1]),
                           URL_SAFE_NO_PAD_encode(py[1])>>)

(***************************************************************************)
(* The extractors of src/src/generator (the ones lib.rs documents).        *)
(***************************************************************************)
\* generator::rsa::extract_rsa_n_e reading a private key too
generator_rsa_extract_rsa_n_e_any_key(pem_data) ==
    IF /\ ~pem_data.truncated
       /\ pem_data.der.algorithm = "rsaEncryption"
       /\ \/ pem_data.label = "PUBLIC KEY" /\ pem_data.der.form = "spki"
          \/ pem_data.label = "PRIVATE KEY" /\ pem_data.der.form = "pkcs8"
    THEN [ok |-> TRUE,
          val |-> <<URL_SAFE_NO_PAD_encode(to_bytes_be(pem_data.der.n)),
                    URL_SAFE_NO_PAD_encode(to_bytes_be(pem_data.der.e))>>]
    ELSE [ok |-> FALSE, err |-> MissingRsaParams]
generator_rsa_extract_rsa_n_e(pem_data) ==
    LET parsed == RsaPublicKey_from_public_key_pem(pem_data)
    IN  IF ~parsed.ok THEN Err(MissingRsaParams)
        ELSE LET n_bytes == to_bytes_be(parsed.val.n)
                 e_bytes == to_bytes_be(parsed.val.e)
             IN  IF Len(n_bytes) = 0 \/ Len(e_bytes) = 0
                 THEN Err(MissingRsaParams)
                 ELSE Ok(<<URL_SAFE_NO_PAD_encode(n_bytes),
                           URL_SAFE_NO_PAD_encode(e_bytes)>>)

\* generator::ecdsa::extract_es256_coordinates encoding each coordinate as an
\* integer, without its leading zero bytes
generator_ecdsa_extract_es256_coordinates_minimal(pem_data) ==
    LET parsed == PublicKey_from_public_key_pem(pem_data)
        Minimal(bytes) ==
            LET k == CHOOSE i \in 1..Len(bytes) :
                         /\ \A j \in 1..(i - 1) : bytes[j] = 0
                         /\ i = Len(bytes) \/ bytes[i] # 0
            IN  SubSeq(bytes, k, Len(bytes))
    IN  IF ~parsed.ok THEN [ok |-> FALSE, err |-> MissingEcParams]
        ELSE [ok |-> TRUE,
              val |-> <<URL_SAFE_NO_PAD_encode(Minimal(parsed.val.point.x)),
                        URL_SAFE_NO_PAD_encode(Minimal(parsed.val.point.y))>>]
generator_ecdsa_extract_es256_coordinates(pem_data) ==
    LET parsed == PublicKey_from_public_key_pem(pem_data)
    IN  IF ~parsed.ok THEN Err(MissingEcParams)
        ELSE LET encoded_point == to_encoded_point(parsed.val, FALSE)
                 px == EncodedPoint_x(encoded_point)
                 py == EncodedPoint_y(encoded_point)
             IN  IF is_none(px) THEN Err(MissingEcX)
                 ELSE IF is_none(py) THEN Err(MissingEcY)
                 ELSE Ok(<<URL_SAFE_NO_PAD_encode(px[1]),
                           URL_SAFE_NO_PAD_encode(py[1])>>)

(***************************************************************************)
(* Key generation (src/src/generator, src/src/cryptography).               *)
(* What the operating system's random generator and the encoders answer is *)
(* the environment of a call: env.rng is what the generator draws,         *)
(* env.private_pem and env.public_pem tell whether the encoder succeeds.   *)
(***************************************************************************)
\* the public exponent RsaPrivateKey::new uses
RsaExponent == 65537

RECURSIVE BitLength(_)
BitLength(v) == IF v = 0 THEN 0 ELSE 1 + BitLength(v \div 2)

\* RsaPrivateKey::new(&mut rng, bits): a key whose modulus has the bit size
\* asked for, or the library's error when no such key is found
RsaPrivateKey_new(rng, bits) ==
    IF is_some(rng) /\ BitLength(rng[1]) = bits
    THEN Ok([n |-> rng[1], e |-> RsaExponent])
    ELSE Err(<<"rsa::Error">>)

to_public_key(private_key) == [n |-> private_key.n, e |-> private_key.e]

\* EncodePrivateKey::to_pkcs8_pem and EncodePublicKey::to_public_key_pem of
\* the rsa crate
RsaPrivateKey_to_pkcs8_pem(private_key, succeeds) ==
    IF succeeds
    THEN Ok(PemText("PRIVATE KEY", RsaPkcs8(private_key.n, private_key.e), FALSE))
    ELSE Err(<<"pkcs8::Error">>)
RsaPublicKey_to_public_key_pem(public_key, succeeds) ==
    IF succeeds
    THEN Ok(PemText("PUBLIC KEY", RsaSpki(public_key.n, public_key.e), FALSE))
    ELSE Err(<<"spki::Error">>)

\* generate_rsa_keypair_pem giving the private PEM alone when the public key
\* cannot be encoded
generate_rsa_keypair_pem_private_only(bits, env) ==
    LET private_key == RsaPrivateKey_new(env.rng, bits)
    IN  IF ~private_key.ok THEN [ok |-> FALSE, err |-> KeyGenerationFailed]
        ELSE LET private_pem ==
                     RsaPrivateKey_to_pkcs8_pem(private_key.val, env.private_pem)
                 public_pem ==
                     RsaPublicKey_to_public_key_pem(
                         to_public_key(private_key.val), env.public_pem)
             IN  IF ~private_pem.ok THEN [ok |-> FALSE, err |-> KeyGenerationFailed]
                 ELSE IF ~public_pem.ok
                 THEN [ok |-> TRUE, val |-> <<private_pem.val>>]
                 ELSE [ok |-> TRUE, val |-> <<private_pem.val, public_pem.val>>]
\* generator::rsa::generate_rsa_keypair_pem
generate_rsa_keypair_pem(bits, env) ==
    LET private_key == RsaPrivateKey_new(env.rng, bits)
    IN  IF ~private_key.ok THEN Err(KeyGenerationFailed)
        ELSE LET public_key == to_public_key(private_key.val)
                 private_pem ==
                     RsaPrivateKey_to_pkcs8_pem(private_key.val, env.private_pem)
             IN  IF ~private_pem.ok THEN Err(KeyGenerationFailed)
                 ELSE LET public_pem ==
                              RsaPublicKey_to_public_key_pem(public_key, env.public_pem)
                      IN  IF ~public_pem.ok THEN Err(KeyGenerationFailed)
                          ELSE Ok(<<private_pem.val, public_pem.val>>)

\* cryptography::rsa::generate_rsa_keypair_pem
cryptography_rsa_generate_rsa_keypair_pem(bits, env) ==
    LET private_key == RsaPrivateKey_new(env.rng, bits)
    IN  IF ~private_key.ok THEN Err(KeyGenerationFailed)
        ELSE LET public_key == to_public_key(private_key.val)
                 private_pem ==
                     RsaPrivateKey_to_pkcs8_pem(private_key.val, env.private_pem)
             IN  IF ~private_pem.ok THEN Err(KeyGenerationFailed)
                 ELSE LET public_pem ==
                              RsaPublicKey_to_public_key_pem(public_key, env.public_pem)
                      IN  IF ~public_pem.ok THEN Err(KeyGenerationFailed)
                          ELSE Ok(<<private_pem.val, public_pem.val>>)

\* SigningKey::random(&mut OsRng): the key of the point drawn; no Result
SigningKey_random(rng) == [point |-> rng]
verifying_key(signing_key) == [point |-> signing_key.point]

\* the same encoders of the p256 crate
SigningKey_to_pkcs8_pem(signing_key, succeeds) ==
    IF succeeds
    THEN Ok(PemText("PRIVATE KEY", EcPkcs8("P-256", signing_key.point), FALSE))
    ELSE Err(<<"pkcs8::Error">>)
VerifyingKey_to_public_key_pem(verify_key, succeeds) ==
    IF succeeds
    THEN Ok(PemText("PUBLIC KEY", EcSpki("P-256", verify_key.point), FALSE))
    ELSE Err(<<"spki::Error">>)

\* generate_es256_keypair_pem reporting the failure of an encoder as
\* PemWriteError
generate_es256_keypair_pem_write_error(env) ==
    IF ~env.private_pem \/ ~env.public_pem
    THEN [ok |-> FALSE, err |-> <<"PemWriteError">>]
    ELSE [ok |-> TRUE,
          val |-> <<SigningKey_to_pkcs8_pem(SigningKey_random(env.rng), TRUE).val,
                    VerifyingKey_to_public_key_pem(
                        verifying_key(SigningKey_random(env.rng)), TRUE).val>>]
\* generator::ecdsa::generate_es256_keypair_pem
generate_es256_keypair_pem(env) ==
    LET signing_key == SigningKey_random(env.rng)
        private_pem == SigningKey_to_pkcs8_pem(signing_key, env.private_pem)
    IN  IF ~private_pem.ok THEN Err(KeyGenerationFailed)
        ELSE LET verify_key == verifying_key(signing_key)
                 public_pem == VerifyingKey_to_public_key_pem(verify_key, env.public_pem)
             IN  IF ~public_pem.ok THEN Err(KeyGenerationFailed)
                 ELSE Ok(<<private_pem.val, public_pem.val>>)

(***************************************************************************)
(* Inputs.                                                                 *)
(***************************************************************************)
\* The builders whose Jwk a call site collects into a key set: every key type,
\* each of n, e, crv, x, y and kid set or not.
PoolBuilder(kty, sn, se, sc, sx, sy, sk) ==
    LET b0 == new(kty)
        b1 == IF sn THEN n(b0, "n-val") ELSE b0
        b2 == IF se THEN e(b1, "AQAB") ELSE b1
        b3 == IF sc THEN crv(b2, "P-256") ELSE b2
        b4 == IF sx THEN x(b3, "x-val") ELSE b3
        b5 == IF sy THEN y(b4, "y-val") ELSE b4
    IN  IF sk THEN kid(b5, "kid-1") ELSE b5
PoolBuilders ==
    {PoolBuilder(kty, sn, se, sc, sx, sy, sk) :
        kty \in KeyTypes, sn \in BOOLEAN, se \in BOOLEAN, sc \in BOOLEAN,
        sx \in BOOLEAN, sy \in BOOLEAN, sk \in BOOLEAN}

\* Jwk values written as struct literals (every field of Jwk is pub): the
\* RSA group and the EC group each present or not, under each key type.
PoolLiterals ==
    {JwkOf(PoolBuilder(kty, rsa, rsa, ec, ec, ec, TRUE)) :
        kty \in {"RSA", "EC", "OCT"}, rsa \in BOOLEAN, ec \in BOOLEAN}

\* moduli and exponents of one, two and three bytes
Moduli == {187, 3233, 46927, 1048573, 16777213}
Exponents == {3, 17, 257, 65537}
DerDocuments ==
    {RsaSpki(m, ex) : m \in Moduli, ex \in Exponents}
    \cup {RsaPkcs8(m, ex) : m \in Moduli, ex \in Exponents}
    \cup {EcSpki("P-256", pt) : pt \in P256Points}
    \cup {EcPkcs8("P-256", P256_G), EcSpki("P-384", P256_G),
          EcSpki("P-256", P256_OffCurve), EcSpki("P-256", P256_Identity), Junk}
\* the bit sizes asked of the RSA generator (0: a size no key has), and the
\* environments of a call
BitSizes == {0} \cup {BitLength(m) : m \in Moduli}
RsaArgs ==
    {[bits |-> bits, rng |-> rng, private_pem |-> pr, public_pem |-> pu] :
        bits \in BitSizes,
        rng \in {None} \cup {Some(m) : m \in Moduli},
        pr \in BOOLEAN, pu \in BOOLEAN}
EcArgs ==
    {[rng |-> pt, private_pem |-> pr, public_pem |-> pu] :
        pt \in P256Points, pr \in BOOLEAN, pu \in BOOLEAN}
\* the calls threads make: an extractor of src/src/jwk.rs and its text
ThreadTexts ==
    {PemText("PUBLIC KEY", RsaSpki(3233, 65537), FALSE),
     PemText("PUBLIC KEY", RsaSpki(187, 3), FALSE),
     PemText("PRIVATE KEY", RsaPkcs8(3233, 65537), FALSE),
     PemText("PUBLIC KEY", EcSpki("P-256", P256_G), FALSE),
     PemText("PUBLIC KEY", EcSpki("P-256", P256_379G), FALSE)}
ThreadCalls ==
    {[fn |-> fn, pem_data |-> text, pc |-> "parse", public_key |-> None,
      bytes |-> None, result |-> None] :
        fn \in {"extract_rsa_n_e", "extract_es256_coordinates"},
        text \in ThreadTexts}
Labels == {"PUBLIC KEY", "PRIVATE KEY", "RSA PUBLIC KEY", "CERTIFICATE"}
Texts ==
    {PemText(label, der, truncated) :
        label \in Labels, der \in DerDocuments, truncated \in BOOLEAN}

(***************************************************************************)
(* State.                                                                  *)
(***************************************************************************)
VARIABLES
    builder,    \* the JwkBuilder value owned by the call site
    phase,      \* "Building" while the call site owns it, "Built" once moved into build
    result,     \* Option<Result<Jwk, JwkError>>: what build returned
    newArg,     \* history: the string handed to JwkBuilder::new
    lastArg,    \* history: per field, the argument of the latest setter call
    calls,      \* history: how many setter calls were made
    json,       \* Option: the serialised form of the Jwk that build returned
    keys,       \* the Vec<Jwk> a call site collects and hands to create_jwks
    origin,     \* history: per element of keys, "build" or "literal"
    jwks,       \* Option<Jwks>: what create_jwks returned
    pem,        \* the text handed to an extractor
    extracted,  \* Option<Result<(String, String), JwkError>>: what
                \* jwk::extract_rsa_n_e returned
    extractedEc,    \* the same of jwk::extract_es256_coordinates
    genExtracted,   \* the same of generator::rsa::extract_rsa_n_e
    genExtractedEc, \* the same of generator::ecdsa::extract_es256_coordinates
    rsaArgs,    \* the bit size handed to an RSA generator and what its
                \* library calls will answer
    ecArgs,     \* what the library calls of generate_es256_keypair_pem will answer
    generated,      \* Option<Result<(String, String), JwkError>>: what
                    \* generator::rsa::generate_rsa_keypair_pem returned
    cryptoGenerated,    \* the same of cryptography::rsa::generate_rsa_keypair_pem
    generatedEc,    \* the same of generator::ecdsa::generate_es256_keypair_pem
    threads,    \* the calls of the extractors running on threads
    scenario    \* the program at hand: which call sites run

builderVars == <<builder, phase, result, newArg, lastArg, calls, json>>
jwksVars == <<keys, origin, jwks>>
extractVars == <<pem, extracted, extractedEc, genExtracted, genExtractedEc>>
genVars == <<rsaArgs, ecArgs, generated, cryptoGenerated, generatedEc>>
threadVars == <<threads>>
vars == <<builderVars, jwksVars, extractVars, genVars, threadVars, scenario>>

NoArgs == [f \in OptFieldSet |-> None]

InitBuilder ==
    /\ phase = "Building"
    /\ result = None
    /\ lastArg = NoArgs
    /\ calls = 0
    /\ json = None
InitJwks ==
    /\ keys = <<>>
    /\ origin = <<>>
    /\ jwks = None
NoText == PemText("", Junk, FALSE)
InitExtract ==
    /\ pem = NoText
    /\ extracted = None
    /\ extractedEc = None
    /\ genExtracted = None
    /\ genExtractedEc = None
NoRsaArgs == [bits |-> 0, rng |-> None, private_pem |-> TRUE, public_pem |-> TRUE]
NoEcArgs == [rng |-> P256_G, private_pem |-> TRUE, public_pem |-> TRUE]
InitGen ==
    /\ rsaArgs = NoRsaArgs
    /\ ecArgs = NoEcArgs
    /\ generated = None
    /\ cryptoGenerated = None
    /\ generatedEc = None
InitThreads ==
    threads = <<>>

(***************************************************************************)
(* Spec: one builder from new to build, and the serialisation of its Jwk.  *)
(***************************************************************************)
Init ==
    /\ \E kty \in KeyTypes :
        /\ builder = new(kty)
        /\ newArg = kty
    /\ InitBuilder
    /\ InitJwks
    /\ InitExtract
    /\ InitGen
    /\ InitThreads
    /\ scenario = "builder"

\* The setters take self by value and hand it back: the call site still owns
\* the builder afterwards.
Call_use_ ==
    /\ phase = "Building"
    /\ calls < MaxCalls
    /\ calls' = calls + 1
    /\ \E value \in Values :
        /\ builder' = use_(builder, value)
        /\ lastArg' = [lastArg EXCEPT !["use_"] = Some(value)]
    /\ UNCHANGED <<phase, result, newArg, json, jwksVars, extractVars, genVars, threadVars, scenario>>

Call_alg ==
    /\ phase = "Building"
    /\ calls < MaxCalls
    /\ calls' = calls + 1
    /\ \E value \in Values :
        /\ builder' = alg(builder, value)
        /\ lastArg' = [lastArg EXCEPT !["alg"] = Some(value)]
    /\ UNCHANGED <<phase, result, newArg, json, jwksVars, extractVars, genVars, threadVars, scenario>>

Call_kid ==
    /\ phase = "Building"
    /\ calls < MaxCalls
    /\ calls' = calls + 1
    /\ \E value \in Values :
        /\ builder' = kid(builder, value)
        /\ lastArg' = [lastArg EXCEPT !["kid"] = Some(value)]
    /\ UNCHANGED <<phase, result, newArg, json, jwksVars, extractVars, genVars, threadVars, scenario>>

Call_n ==
    /\ phase = "Building"
    /\ calls < MaxCalls
    /\ calls' = calls + 1
    /\ \E value \in Values :
        /\ builder' = n(builder, value)
        /\ lastArg' = [lastArg EXCEPT !["n"] = Some(value)]
    /\ UNCHANGED <<phase, result, newArg, json, jwksVars, extractVars, genVars, threadVars, scenario>>

Call_e ==
    /\ phase = "Building"
    /\ calls < MaxCalls
    /\ calls' = calls + 1
    /\ \E value \in Values :
        /\ builder' = e(builder, value)
        /\ lastArg' = [lastArg EXCEPT !["e"] = Some(value)]
    /\ UNCHANGED <<phase, result, newArg, json, jwksVars, extractVars, genVars, threadVars, scenario>>

Call_crv ==
    /\ phase = "Building"
    /\ calls < MaxCalls
    /\ calls' = calls + 1
    /\ \E value \in Values :
        /\ builder' = crv(builder, value)
        /\ lastArg' = [lastArg EXCEPT !["crv"] = Some(value)]
    /\ UNCHANGED <<phase, result, newArg, json, jwksVars, extractVars, genVars, threadVars, scenario>>

Call_x ==
    /\ phase = "Building"
    /\ calls < MaxCalls
    /\ calls' = calls + 1
    /\ \E value \in Values :
        /\ builder' = x(builder, value)
        /\ lastArg' = [lastArg EXCEPT !["x"] = Some(value)]
    /\ UNCHANGED <<phase, result, newArg, json, jwksVars, extractVars, genVars, threadVars, scenario>>

Call_y ==
    /\ phase = "Building"
    /\ calls < MaxCalls
    /\ calls' = calls + 1
    /\ \E value \in Values :
        /\ builder' = y(builder, value)
        /\ lastArg' = [lastArg EXCEPT !["y"] = Some(value)]
    /\ UNCHANGED <<phase, result, newArg, json, jwksVars, extractVars, genVars, threadVars, scenario>>

Call_d ==
    /\ phase = "Building"
    /\ calls < MaxCalls
    /\ calls' = calls + 1
    /\ \E value \in Values :
        /\ builder' = d(builder, value)
        /\ lastArg' = [lastArg EXCEPT !["d"] = Some(value)]
    /\ UNCHANGED <<phase, result, newArg, json, jwksVars, extractVars, genVars, threadVars, scenario>>

\* build through a reference: the call site keeps the builder
Call_build_by_reference ==
    /\ phase = "Building"
    /\ result = None
    /\ result' = Some(build(builder))
    /\ UNCHANGED <<builder, phase, newArg, lastArg, calls, json, jwksVars, extractVars, genVars, threadVars, scenario>>
\* build takes self by value and returns no builder: the call site has none left.
Call_build ==
    /\ phase = "Building"
    /\ result' = Some(build(builder))
    /\ phase' = "Built"
    /\ UNCHANGED <<builder, newArg, lastArg, calls, json, jwksVars, extractVars, genVars, threadVars, scenario>>

\* serde_json::to_string on the Jwk that build returned
Call_serialize ==
    /\ phase = "Built"
    /\ is_some(result)
    /\ result[1].ok
    /\ json = None
    /\ json' = Some(serialize(result[1].val))
    /\ UNCHANGED <<builder, phase, result, newArg, lastArg, calls, jwksVars, extractVars, genVars, threadVars, scenario>>

Next ==
    \/ Call_use_ \/ Call_alg \/ Call_kid \/ Call_n \/ Call_e
    \/ Call_crv \/ Call_x \/ Call_y \/ Call_d
    \/ Call_build
    \/ Call_serialize

Spec == Init /\ [][Next]_vars

(***************************************************************************)
(* SpecJwks: a call site collects Jwk values, some returned by build and   *)
(* some written as struct literals, and hands them to create_jwks.         *)
(***************************************************************************)
InitCollect ==
    /\ builder = new("RSA")
    /\ newArg = "RSA"
    /\ InitBuilder
    /\ InitJwks
    /\ InitExtract
    /\ InitGen
    /\ InitThreads
    /\ scenario = "jwks"

\* let jwk = <builder chain>.build()?; keys.push(jwk)
Push_built ==
    /\ jwks = None
    /\ Len(keys) < MaxKeys
    /\ \E b \in PoolBuilders :
        /\ build(b).ok
        /\ keys' = Append(keys, build(b).val)
    /\ origin' = Append(origin, "build")
    /\ UNCHANGED <<jwks, builderVars, extractVars, genVars, threadVars, scenario>>

\* keys.push(Jwk { kty: .., n: .., .. })
Push_literal ==
    /\ jwks = None
    /\ Len(keys) < MaxKeys
    /\ \E j \in PoolLiterals : keys' = Append(keys, j)
    /\ origin' = Append(origin, "literal")
    /\ UNCHANGED <<jwks, builderVars, extractVars, genVars, threadVars, scenario>>

Call_create_jwks ==
    /\ jwks = None
    /\ jwks' = Some(create_jwks(keys))
    /\ UNCHANGED <<keys, origin, builderVars, extractVars, genVars, threadVars, scenario>>

NextJwks == Push_built \/ Push_literal \/ Call_create_jwks

SpecJwks == InitCollect /\ [][NextJwks]_vars

(***************************************************************************)
(* SpecExtract: the extractors applied to a text.                          *)
(***************************************************************************)
InitText ==
    /\ builder = new("RSA")
    /\ newArg = "RSA"
    /\ InitBuilder
    /\ InitJwks
    /\ pem \in Texts
    /\ extracted = None
    /\ extractedEc = None
    /\ genExtracted = None
    /\ genExtractedEc = None
    /\ InitGen
    /\ InitThreads
    /\ scenario = "extract"

Call_extract_rsa_n_e ==
    /\ extracted = None
    /\ extracted' = Some(extract_rsa_n_e(pem))
    /\ UNCHANGED <<pem, extractedEc, genExtracted, genExtractedEc>>
    /\ UNCHANGED <<builderVars, jwksVars, genVars, threadVars, scenario>>

Call_extract_es256_coordinates ==
    /\ extractedEc = None
    /\ extractedEc' = Some(extract_es256_coordinates(pem))
    /\ UNCHANGED <<pem, extracted, genExtracted, genExtractedEc>>
    /\ UNCHANGED <<builderVars, jwksVars, genVars, threadVars, scenario>>

Call_generator_rsa_extract_rsa_n_e ==
    /\ genExtracted = None
    /\ genExtracted' = Some(generator_rsa_extract_rsa_n_e(pem))
    /\ UNCHANGED <<pem, extracted, extractedEc, genExtractedEc>>
    /\ UNCHANGED <<builderVars, jwksVars, genVars, threadVars, scenario>>

Call_generator_ecdsa_extract_es256_coordinates ==
    /\ genExtractedEc = None
    /\ genExtractedEc' = Some(generator_ecdsa_extract_es256_coordinates(pem))
    /\ UNCHANGED <<pem, extracted, extractedEc, genExtracted>>
    /\ UNCHANGED <<builderVars, jwksVars, genVars, threadVars, scenario>>

NextExtract ==
    \/ Call_extract_rsa_n_e
    \/ Call_extract_es256_coordinates
    \/ Call_generator_rsa_extract_rsa_n_e
    \/ Call_generator_ecdsa_extract_es256_coordinates

SpecExtract == InitText /\ [][NextExtract]_vars

(***************************************************************************)
(* SpecGenerate: a key pair is generated, one of its PEM texts is handed   *)
(* to the extractors.                                                      *)
(***************************************************************************)
InitGenerate ==
    /\ builder = new("RSA")
    /\ newArg = "RSA"
    /\ InitBuilder
    /\ InitJwks
    /\ InitExtract
    /\ rsaArgs \in {a \in RsaArgs : is_some(a.rng) => BitLength(a.rng[1]) = a.bits}
    /\ ecArgs \in EcArgs
    /\ generated = None
    /\ cryptoGenerated = None
    /\ generatedEc = None
    /\ InitThreads
    /\ scenario = "generate"

Call_generate_rsa_keypair_pem ==
    /\ generated = None
    /\ generated' = Some(generate_rsa_keypair_pem(rsaArgs.bits, rsaArgs))
    /\ UNCHANGED <<rsaArgs, ecArgs, cryptoGenerated, generatedEc>>
    /\ UNCHANGED <<builderVars, jwksVars, extractVars, threadVars, scenario>>

Call_cryptography_rsa_generate_rsa_keypair_pem ==
    /\ cryptoGenerated = None
    /\ cryptoGenerated' =
           Some(cryptography_rsa_generate_rsa_keypair_pem(rsaArgs.bits, rsaArgs))
    /\ UNCHANGED <<rsaArgs, ecArgs, generated, generatedEc>>
    /\ UNCHANGED <<builderVars, jwksVars, extractVars, threadVars, scenario>>

Call_generate_es256_keypair_pem ==
    /\ generatedEc = None
    /\ generatedEc' = Some(generate_es256_keypair_pem(ecArgs))
    /\ UNCHANGED <<rsaArgs, ecArgs, generated, cryptoGenerated>>
    /\ UNCHANGED <<builderVars, jwksVars, extractVars, threadVars, scenario>>

\* let (private_pem, public_pem) = generate_..()?; one of the two is the
\* pem_data of the extractor calls that follow
Pass_pem ==
    /\ pem = NoText
    /\ \E r \in {generated, generatedEc} :
        /\ is_some(r)
        /\ r[1].ok
        /\ \E i \in DOMAIN r[1].val : pem' = r[1].val[i]
    /\ UNCHANGED <<extracted, extractedEc, genExtracted, genExtractedEc>>
    /\ UNCHANGED <<builderVars, jwksVars, genVars, threadVars, scenario>>

NextGenerate ==
    \/ Call_generate_rsa_keypair_pem
    \/ Call_cryptography_rsa_generate_rsa_keypair_pem
    \/ Call_generate_es256_keypair_pem
    \/ Pass_pem
    \/ pem # NoText /\ Call_extract_rsa_n_e
    \/ pem # NoText /\ Call_extract_es256_coordinates
    \/ pem # NoText /\ Call_generator_rsa_extract_rsa_n_e
    \/ pem # NoText /\ Call_generator_ecdsa_extract_es256_coordinates

SpecGenerate == InitGenerate /\ [][NextGenerate]_vars

(***************************************************************************)
(* SpecThreads: threads call the extractors of src/src/jwk.rs at the same  *)
(* time.  A call runs in three steps on its own locals: the parse of the   *)
(* text, the bytes of the two numbers, their encoding.                     *)
(***************************************************************************)
InitConcurrent ==
    /\ builder = new("RSA")
    /\ newArg = "RSA"
    /\ InitBuilder
    /\ InitJwks
    /\ InitExtract
    /\ InitGen
    /\ threads \in [1..NumThreads -> ThreadCalls]
    /\ scenario = "threads"

\* the parse step keeping the parsed key in one place all calls share
Thread_parse_shared_key ==
    \E t \in DOMAIN threads :
        LET call == threads[t]
            parsed == IF call.fn = "extract_rsa_n_e"
                      THEN RsaPublicKey_from_public_key_pem(call.pem_data)
                      ELSE PublicKey_from_public_key_pem(call.pem_data)
        IN  /\ call.pc = "parse"
            /\ threads' =
                   IF parsed.ok
                   THEN [u \in DOMAIN threads |->
                            IF u = t
                            THEN [call EXCEPT !.pc = "bytes",
                                              !.public_key = <<parsed.val>>]
                            ELSE IF threads[u].pc = "bytes"
                            THEN [threads[u] EXCEPT !.public_key = <<parsed.val>>]
                            ELSE threads[u]]
                   ELSE [threads EXCEPT
                            ![t].pc = "done",
                            ![t].result =
                                <<[ok |-> FALSE,
                                   err |-> IF call.fn = "extract_rsa_n_e"
                                           THEN MissingRsaParams
                                           ELSE MissingEcParams]>>]
            /\ UNCHANGED <<builderVars, jwksVars, extractVars, genVars, scenario>>
\* let public_key = ..::from_public_key_pem(pem_data).map_err(..)?
Thread_parse ==
    \E t \in DOMAIN threads :
        LET call == threads[t]
            parsed == IF call.fn = "extract_rsa_n_e"
                      THEN RsaPublicKey_from_public_key_pem(call.pem_data)
                      ELSE PublicKey_from_public_key_pem(call.pem_data)
        IN  /\ call.pc = "parse"
            /\ threads' =
                   IF parsed.ok
                   THEN [threads EXCEPT ![t].pc = "bytes",
                                        ![t].public_key = Some(parsed.val)]
                   ELSE [threads EXCEPT
                            ![t].pc = "done",
                            ![t].result =
                                Some(Err(IF call.fn = "extract_rsa_n_e"
                                         THEN MissingRsaParams
                                         ELSE MissingEcParams))]
            /\ UNCHANGED <<builderVars, jwksVars, extractVars, genVars, scenario>>

\* n.to_bytes_be(), e.to_bytes_be() and the test for empty; or
\* to_encoded_point(false), x().ok_or(MissingEcX)?, y().ok_or(MissingEcY)?
Thread_bytes ==
    \E t \in DOMAIN threads :
        LET call == threads[t]
            key == call.public_key[1]
        IN  /\ call.pc = "bytes"
            /\ IF call.fn = "extract_rsa_n_e"
               THEN LET n_bytes == to_bytes_be(key.n)
                        e_bytes == to_bytes_be(key.e)
                    IN  threads' =
                            IF Len(n_bytes) = 0 \/ Len(e_bytes) = 0
                            THEN [threads EXCEPT
                                     ![t].pc = "done",
                                     ![t].result = Some(Err(MissingRsaParams))]
                            ELSE [threads EXCEPT
                                     ![t].pc = "encode",
                                     ![t].bytes = Some(<<n_bytes, e_bytes>>)]
               ELSE LET encoded_point == to_encoded_point(key, FALSE)
                        px == EncodedPoint_x(encoded_point)
                        py == EncodedPoint_y(encoded_point)
                    IN  threads' =
                            IF is_none(px)
                            THEN [threads EXCEPT
                                     ![t].pc = "done",
                                     ![t].result = Some(Err(MissingEcX))]
                            ELSE IF is_none(py)
                            THEN [threads EXCEPT
                                     ![t].pc = "done",
                                     ![t].result = Some(Err(MissingEcY))]
                            ELSE [threads EXCEPT
                                     ![t].pc = "encode",
                                     ![t].bytes = Some(<<px[1], py[1]>>)]
            /\ UNCHANGED <<builderVars, jwksVars, extractVars, genVars, scenario>>

\* Ok((URL_SAFE_NO_PAD.encode(..), URL_SAFE_NO_PAD.encode(..)))
Thread_encode ==
    \E t \in DOMAIN threads :
        LET call == threads[t]
        IN  /\ call.pc = "encode"
            /\ threads' =
                   [threads EXCEPT
                       ![t].pc = "done",
                       ![t].result =
                           Some(Ok(<<URL_SAFE_NO_PAD_encode(call.bytes[1][1]),
                                     URL_SAFE_NO_PAD_encode(call.bytes[1][2])>>))]
            /\ UNCHANGED <<builderVars, jwksVars, extractVars, genVars, scenario>>

NextThreads == Thread_parse \/ Thread_bytes \/ Thread_encode

SpecThreads == InitConcurrent /\ [][NextThreads]_vars

(***************************************************************************)
(* SpecKeys: the texts of SpecExtract and the generated keys of            *)
(* SpecGenerate, for what is said of the functions of both.                *)
(***************************************************************************)
InitKeys == InitText \/ InitGenerate

NextKeys ==
    \/ scenario = "extract" /\ NextExtract
    \/ scenario = "generate" /\ NextGenerate

SpecKeys == InitKeys /\ [][NextKeys]_vars

(***************************************************************************)
(* SpecAll: each of the programs above.                                    *)
(***************************************************************************)
InitAll == Init \/ InitCollect \/ InitText \/ InitGenerate \/ InitConcurrent

NextAll ==
    \/ scenario = "builder" /\ Next
    \/ scenario = "jwks" /\ NextJwks
    \/ scenario = "extract" /\ NextExtract
    \/ scenario = "generate" /\ NextGenerate
    \/ scenario = "threads" /\ NextThreads

SpecAll == InitAll /\ [][NextAll]_vars

(***************************************************************************)
(* Properties.                                                             *)
(***************************************************************************)
Built == phase = "Built" /\ is_some(result)
BuildFailedWith(er) == Built /\ ~result[1].ok /\ result[1].err = er
BuildSucceeded == Built /\ result[1].ok

\* C1: build on an "RSA" builder succeeds if and only if n and e are both
\* set, and fails with MissingRsaParams otherwise, whatever the other fields.
C1_RsaBuildIffModulusAndExponent ==
    (Built /\ newArg = "RSA") =>
        IF lastArg["n"] # None /\ lastArg["e"] # None
        THEN result[1].ok
        ELSE ~result[1].ok /\ result[1].err = <<"MissingRsaParams">>

\* an "RSA" builder with n, e and the EC fields set, use_ and kid unset, built
C1_Witness ==
    /\ BuildSucceeded /\ newArg = "RSA"
    /\ lastArg["x"] # None /\ lastArg["crv"] # None /\ lastArg["y"] # None
    /\ lastArg["use_"] = None /\ lastArg["kid"] = None

\* C2: build on an "EC" builder succeeds if and only if crv, x and y are all
\* set, and fails with MissingEcParams whichever of the three is missing.
C2_EcBuildIffCurveAndPoint ==
    (Built /\ newArg = "EC") =>
        IF lastArg["crv"] # None /\ lastArg["x"] # None /\ lastArg["y"] # None
        THEN result[1].ok
        ELSE ~result[1].ok /\ result[1].err = <<"MissingEcParams">>

\* an "EC" builder with x and y but no crv (and n, e set), built: it failed
C2_Witness ==
    /\ BuildFailedWith(<<"MissingEcParams">>) /\ newArg = "EC"
    /\ lastArg["crv"] = None /\ lastArg["x"] # None /\ lastArg["y"] # None
    /\ lastArg["n"] # None /\ lastArg["e"] # None

\* C3: build on a builder of any key type other than exactly "RSA" or "EC"
\* fails with UnsupportedKeyType carrying the string handed to new, whatever
\* fields are set.
C3_UnsupportedKeyTypeCarriesString ==
    (Built /\ newArg # "RSA" /\ newArg # "EC") =>
        /\ ~result[1].ok
        /\ result[1].err = <<"UnsupportedKeyType", newArg>>

\* a builder made with "rsa", with n, e, crv, x and y all set, built
C3_Witness ==
    /\ BuildFailedWith(<<"UnsupportedKeyType", "rsa">>) /\ newArg = "rsa"
    /\ \A f \in {"n", "e", "crv", "x", "y"} : lastArg[f] # None

\* C4: the Jwk of a successful build is a snapshot of the builder: kty is the
\* string handed to new, and every optional field is what the builder holds,
\* present if set and absent if not, fields of the other key type included.
C4_BuildSnapshotsBuilder ==
    BuildSucceeded =>
        LET jwk == result[1].val
        IN  /\ DOMAIN jwk = {"kty"} \cup OptFieldSet
            /\ jwk.kty = newArg
            /\ \A f \in OptFieldSet : jwk[f] = builder[f] /\ jwk[f] = lastArg[f]

\* an "EC" builder with n set besides crv, x, y, and d never set: its Jwk
\* carries n and has no d
C4_Witness ==
    /\ BuildSucceeded /\ newArg = "EC"
    /\ lastArg["n"] # None /\ result[1].val.n = lastArg["n"]
    /\ lastArg["d"] = None /\ result[1].val.d = None

\* the fields a Jwk of a key type must carry
Complete(jwk) ==
    /\ jwk.kty = "RSA" => jwk.n # None /\ jwk.e # None
    /\ jwk.kty = "EC" => jwk.crv # None /\ jwk.x # None /\ jwk.y # None

\* C5 as stated: every Jwk that exists, also one written as a struct literal
\* or held in a Jwks, carries the mandatory fields of its key type.
C5_EveryJwkComplete ==
    /\ \A i \in 1..Len(keys) : Complete(keys[i])
    /\ jwks # None => \A i \in 1..Len(jwks[1].keys) : Complete(jwks[1].keys[i])

\* C5 amended: every Jwk returned by a successful build carries the mandatory
\* fields of its key type, also once it is held in a Jwks.
C5_BuiltJwkComplete ==
    /\ \A i \in 1..Len(keys) : origin[i] = "build" => Complete(keys[i])
    /\ jwks # None =>
        /\ Len(jwks[1].keys) = Len(origin)
        /\ \A i \in 1..Len(origin) :
            origin[i] = "build" => Complete(jwks[1].keys[i])

\* a Jwks holding an "RSA" and an "EC" Jwk that build returned
C5_Witness ==
    /\ jwks # None
    /\ Len(jwks[1].keys) = 2
    /\ origin = <<"build", "build">>
    /\ jwks[1].keys[1].kty = "RSA"
    /\ jwks[1].keys[2].kty = "EC"

\* C6: the builder is Building until build and Built for good afterwards:
\* a setter applies only in Building and stays there, build moves to Built
\* whether it succeeds or fails, nothing changes the builder or the result
\* after that, and a failed build carries no Jwk.
C6_BuildingThenBuilt ==
    [][ /\ builder' # builder => phase = "Building" /\ phase' = "Building"
        /\ result' # result => phase = "Building" /\ phase' = "Built"
        /\ phase' # phase => phase = "Building" /\ phase' = "Built" /\ result' # None
        /\ phase = "Built" => phase' = "Built" /\ builder' = builder /\ result' = result
        /\ (result' # None /\ ~result'[1].ok) => DOMAIN result'[1] = {"ok", "err"}
      ]_vars

\* a builder with a field set whose build failed
C6_Witness ==
    /\ phase = "Built" /\ is_some(result) /\ ~result[1].ok
    /\ lastArg["kid"] # None

\* C7: every field holds the argument of the latest call of its setter, or
\* nothing if its setter was never called; a setter takes any string and
\* stores it.
C7_LastWriteWins ==
    /\ \A f \in OptFieldSet : builder[f] = lastArg[f]
    /\ \A value \in Values \cup {"", "not base64 !"} :
        /\ use_(builder, value).use_ = <<value>>
        /\ alg(builder, value).alg = <<value>>
        /\ kid(builder, value).kid = <<value>>
        /\ n(builder, value).n = <<value>>
        /\ e(builder, value).e = <<value>>
        /\ crv(builder, value).crv = <<value>>
        /\ x(builder, value).x = <<value>>
        /\ y(builder, value).y = <<value>>
        /\ d(builder, value).d = <<value>>

\* a builder still Building whose n holds the second value and whose d was
\* never set
C7_Witness ==
    /\ phase = "Building"
    /\ lastArg["n"] = <<"v1">> /\ builder.n = <<"v1">>
    /\ lastArg["e"] = <<"">> /\ builder.e = <<"">>
    /\ lastArg["d"] = None /\ builder.d = None

\* C8: create_jwks returns the keys it was given: same length, same
\* elements, same order, duplicates of a kid included.
C8_CreateJwksKeepsKeys ==
    jwks # None =>
        /\ DOMAIN jwks[1] = {"keys"}
        /\ Len(jwks[1].keys) = Len(keys)
        /\ \A i \in 1..Len(keys) : jwks[1].keys[i] = keys[i]

\* a Jwks of two different keys with the same kid
C8_Witness ==
    /\ jwks # None
    /\ Len(jwks[1].keys) = 2
    /\ jwks[1].keys[1] # jwks[1].keys[2]
    /\ jwks[1].keys[1].kid = <<"kid-1">>
    /\ jwks[1].keys[2].kid = <<"kid-1">>

\* the JSON key of each optional field
ClaimedKey ==
    [use_ |-> "use", alg |-> "alg", kid |-> "kid", n |-> "n", e |-> "e",
     crv |-> "crv", x |-> "x", y |-> "y", d |-> "d"]
JsonKeys(obj) == {obj[i][1] : i \in 1..Len(obj)}

\* C9: the serialised Jwk has the key kty, and the key of an optional field
\* if and only if the field is set; no member is null.
C9_UnsetFieldsOmitted ==
    json # None =>
        LET obj == json[1]
            jwk == result[1].val
        IN  /\ JsonKeys(obj) =
                {"kty"} \cup {ClaimedKey[f] : f \in {g \in OptFieldSet : jwk[g] # None}}
            /\ Cardinality(JsonKeys(obj)) = Len(obj)
            /\ \A i \in 1..Len(obj) :
                /\ obj[i][2] # <<"null">>
                /\ obj[i][1] = "kty" => obj[i][2] = <<"string", jwk.kty>>
                /\ \A f \in OptFieldSet :
                    obj[i][1] = ClaimedKey[f] => obj[i][2] = <<"string", jwk[f][1]>>

\* an RSA Jwk built with only n, e, alg and kid, serialised
C9_Witness ==
    /\ json # None
    /\ newArg = "RSA"
    /\ JsonKeys(json[1]) = {"kty", "n", "e", "alg", "kid"}

\* what makes a text no RSA public key: cut short, another label, another
\* document
NotAnRsaPublicKey(text) ==
    \/ text.truncated
    \/ text.label # "PUBLIC KEY"
    \/ text.der.form # "spki"
    \/ text.der.algorithm # "rsaEncryption"

\* C10: extract_rsa_n_e returns Ok((n, e)) with both strings non-empty or
\* Err(MissingRsaParams), the error for every text that is no RSA public key;
\* never one component alone.
C10_RsaBothOrMissingRsaParams ==
    extracted # None =>
        LET r == extracted[1]
        IN  /\ IF r.ok
               THEN /\ DOMAIN r = {"ok", "val"}
                    /\ Len(r.val) = 2
                    /\ r.val[1] # "" /\ r.val[2] # ""
               ELSE /\ DOMAIN r = {"ok", "err"}
                    /\ r.err = <<"MissingRsaParams">>
            /\ NotAnRsaPublicKey(pem) => ~r.ok

\* the text of an RSA private key handed to extract_rsa_n_e: MissingRsaParams
C10_Witness ==
    /\ extracted # None
    /\ pem.label = "PRIVATE KEY" /\ pem.der.form = "pkcs8" /\ ~pem.truncated
    /\ extracted[1] = [ok |-> FALSE, err |-> <<"MissingRsaParams">>]

\* what makes a text no P-256 public key: cut short, another label, another
\* document, another curve, or a point that is not a point of the curve
NotAP256PublicKey(text) ==
    IF text.truncated \/ text.label # "PUBLIC KEY" THEN TRUE
    ELSE IF text.der.form # "spki" \/ text.der.algorithm # "id-ecPublicKey" THEN TRUE
    ELSE IF text.der.curve # "P-256" THEN TRUE
    ELSE text.der.point \notin P256Points

\* C11: extract_es256_coordinates returns Err(MissingEcParams) for every text
\* that is no P-256 public key; for a parsed key it returns Ok((x, y)) unless a
\* coordinate cannot be recovered (MissingEcX, else MissingEcY); it always
\* returns a Result, Ok with two strings or Err with one of the three errors.
C11_EcCoordinatesOrMissingEc ==
    extractedEc # None =>
        LET r == extractedEc[1]
        IN  /\ IF r.ok
               THEN /\ DOMAIN r = {"ok", "val"}
                    /\ Len(r.val) = 2
               ELSE /\ DOMAIN r = {"ok", "err"}
                    /\ r.err \in {<<"MissingEcParams">>, <<"MissingEcX">>,
                                  <<"MissingEcY">>}
            /\ NotAP256PublicKey(pem) =>
                   r = [ok |-> FALSE, err |-> <<"MissingEcParams">>]
            /\ ~NotAP256PublicKey(pem) =>
                   \/ r.ok
                   \/ ~r.ok /\ r.err = <<"MissingEcX">> /\ pem.der.point.x = <<>>
                   \/ ~r.ok /\ r.err = <<"MissingEcY">> /\ pem.der.point.x # <<>>
                            /\ pem.der.point.y = <<>>

\* the public key 379G handed to extract_es256_coordinates: both coordinates
C11_Witness ==
    /\ extractedEc # None
    /\ pem = PemText("PUBLIC KEY", EcSpki("P-256", P256_379G), FALSE)
    /\ extractedEc[1] =
           [ok |-> TRUE,
            val |-> <<"AFVDiUrz0A7X10Cr29dclrBod7eH219w7qeLkKjXwAo",
                      "u0yFo9jqKe-q-iRAaRLdhNWxTcMr9lbvbGvVil2UP5I">>]

\* a P-384 key, a point off the curve, the point at infinity and a private key
\* handed to extract_es256_coordinates: MissingEcParams
C11_WitnessRejected ==
    /\ extractedEc # None
    /\ pem.label = "PUBLIC KEY" /\ ~pem.truncated
    /\ pem.der \in {EcSpki("P-384", P256_G), EcSpki("P-256", P256_OffCurve),
                    EcSpki("P-256", P256_Identity)}
    /\ extractedEc[1] = [ok |-> FALSE, err |-> <<"MissingEcParams">>]

(***************************************************************************)
(* Reading an encoded string back: base64url without padding, written      *)
(* from RFC 4648 and not from the encoder.                                 *)
(***************************************************************************)
\* the value of a character of the URL-safe alphabet, 0 to 63; the length of
\* the alphabet for any other character ('=', '+', '/' among them)
SextetOf(c) ==
    IF \E i \in 1..Len(UrlSafeAlphabet) : UrlSafeAlphabet[i] = c
    THEN (CHOOSE i \in 1..Len(UrlSafeAlphabet) : UrlSafeAlphabet[i] = c) - 1
    ELSE Len(UrlSafeAlphabet)
SextetsOf(str) == [i \in 1..Len(str) |-> SextetOf(SubSeq(str, i, i))]

\* the bytes of a sequence of sextets; a rest of two sextets is one byte and
\* of three sextets two bytes, the unused low bits being zero
RECURSIVE BytesOfSextets(_)
BytesOfSextets(q) ==
    IF Len(q) = 0 THEN <<>>
    ELSE IF Len(q) = 2
    THEN <<q[1] * 4 + q[2] \div 16>>
    ELSE IF Len(q) = 3
    THEN <<q[1] * 4 + q[2] \div 16, (q[2] % 16) * 16 + q[3] \div 4>>
    ELSE <<q[1] * 4 + q[2] \div 16, (q[2] % 16) * 16 + q[3] \div 4,
           (q[3] % 4) * 64 + q[4]>>
         \o BytesOfSextets(SubSeq(q, 5, Len(q)))

\* Some(bytes) for a canonical unpadded base64url string, None otherwise
URL_SAFE_NO_PAD_decode(str) ==
    LET q == SextetsOf(str)
        rest == Len(q) % 4
    IN  IF \E i \in 1..Len(q) : q[i] = Len(UrlSafeAlphabet) THEN None
        ELSE IF rest = 1 THEN None
        ELSE IF rest = 2 /\ q[Len(q)] % 16 # 0 THEN None
        ELSE IF rest = 3 /\ q[Len(q)] % 4 # 0 THEN None
        ELSE Some(BytesOfSextets(q))

\* the unsigned integer a sequence of bytes writes, most significant first
RECURSIVE from_bytes_be(_)
from_bytes_be(bytes) ==
    IF Len(bytes) = 0 THEN 0
    ELSE from_bytes_be(SubSeq(bytes, 1, Len(bytes) - 1)) * 256 + bytes[Len(bytes)]

\* bytes is the big-endian writing of v: v read back, no leading zero byte
BigEndianOf(bytes, v) ==
    /\ Len(bytes) >= 1
    /\ from_bytes_be(bytes) = v
    /\ Len(bytes) > 1 => bytes[1] # 0

GeneratedOk(r) == is_some(r) /\ r[1].ok
PublicPemOf(r) == GeneratedOk(r) /\ Len(r[1].val) = 2 /\ pem = r[1].val[2]
PrivatePemOf(r) == GeneratedOk(r) /\ pem = r[1].val[1]

\* C12: RSA round trip: for a key pair a successful generate_rsa_keypair_pem
\* returned, extract_rsa_n_e of the public PEM is Ok((n, e)), both non-empty,
\* and n and e decode as base64url to the big-endian bytes of the modulus and
\* of the public exponent of the generated key.
C12_RsaRoundTrip ==
    (PublicPemOf(generated) /\ genExtracted # None) =>
        LET r == genExtracted[1]
        IN  /\ r.ok
            /\ Len(r.val) = 2
            /\ r.val[1] # "" /\ r.val[2] # ""
            /\ LET n_bytes == URL_SAFE_NO_PAD_decode(r.val[1])
                   e_bytes == URL_SAFE_NO_PAD_decode(r.val[2])
               IN  /\ n_bytes # None /\ e_bytes # None
                   /\ BigEndianOf(n_bytes[1], rsaArgs.rng[1])
                   /\ BigEndianOf(e_bytes[1], 65537)

\* the public PEM of a generated key of modulus 46927 went through
\* extract_rsa_n_e: n is "t08" (bytes 183, 79), e is "AQAB"
C12_Witness ==
    /\ PublicPemOf(generated)
    /\ rsaArgs.rng = <<46927>>
    /\ genExtracted = <<[ok |-> TRUE, val |-> <<"t08", "AQAB">>]>>

\* C13: EC round trip: for a key pair a successful generate_es256_keypair_pem
\* returned, extract_es256_coordinates of the public PEM is Ok((x, y)); x and
\* y are unpadded strings of the URL-safe alphabet that decode to exactly 32
\* bytes each, the big-endian coordinates of the public point.
C13_EcRoundTrip ==
    (PublicPemOf(generatedEc) /\ genExtractedEc # None) =>
        LET r == genExtractedEc[1]
        IN  /\ r.ok
            /\ Len(r.val) = 2
            /\ LET x_bytes == URL_SAFE_NO_PAD_decode(r.val[1])
                   y_bytes == URL_SAFE_NO_PAD_decode(r.val[2])
               IN  /\ x_bytes # None /\ y_bytes # None
                   /\ Len(x_bytes[1]) = 32 /\ Len(y_bytes[1]) = 32
                   /\ x_bytes[1] = ecArgs.rng.x
                   /\ y_bytes[1] = ecArgs.rng.y

\* the public PEM of the generated key 43G, whose y starts with a zero byte,
\* went through extract_es256_coordinates
C13_Witness ==
    /\ PublicPemOf(generatedEc)
    /\ ecArgs.rng = P256_43G
    /\ genExtractedEc # None
    /\ genExtractedEc[1].ok
    /\ genExtractedEc[1].val[2] = "ADzMwKZGDgrjKKTZfTx7YdhvxiicGJ8lJREMRBuwfpc"

\* the outcome of a generator: Ok of a private and a public PEM, or
\* Err(KeyGenerationFailed)
PairOrKeyGenerationFailed(r) ==
    IF r.ok
    THEN /\ DOMAIN r = {"ok", "val"}
         /\ Len(r.val) = 2
         /\ r.val[1].label = "PRIVATE KEY" /\ r.val[1].der.form = "pkcs8"
         /\ r.val[2].label = "PUBLIC KEY" /\ r.val[2].der.form = "spki"
    ELSE /\ DOMAIN r = {"ok", "err"}
         /\ r.err = <<"KeyGenerationFailed">>

\* C14: generate_rsa_keypair_pem and generate_es256_keypair_pem return
\* Ok((private_pem, public_pem)) with both halves or Err(KeyGenerationFailed);
\* a failure of the primitive (a rejected bit size among them), of the
\* private-key encoding or of the public-key encoding is KeyGenerationFailed,
\* and without a failure the pair is returned.
C14_PairOrKeyGenerationFailed ==
    /\ generated # None =>
        /\ PairOrKeyGenerationFailed(generated[1])
        /\ generated[1].ok <=>
               /\ rsaArgs.rng # None
               /\ rsaArgs.bits # 0
               /\ rsaArgs.private_pem
               /\ rsaArgs.public_pem
    /\ generatedEc # None =>
        /\ PairOrKeyGenerationFailed(generatedEc[1])
        /\ generatedEc[1].ok <=> (ecArgs.private_pem /\ ecArgs.public_pem)

\* the private key was generated and encoded, the public key could not be
\* encoded: generate_rsa_keypair_pem returned KeyGenerationFailed
C14_Witness ==
    /\ rsaArgs.rng # None /\ rsaArgs.private_pem /\ ~rsaArgs.public_pem
    /\ generated = <<[ok |-> FALSE, err |-> <<"KeyGenerationFailed">>]>>

\* a bit size no key has: KeyGenerationFailed
C14_WitnessRejectedSize ==
    /\ rsaArgs.bits = 0
    /\ generated = <<[ok |-> FALSE, err |-> <<"KeyGenerationFailed">>]>>

\* C15: extract_rsa_n_e takes the PEM of an RSA key, public or private: for
\* the private PEM as for the public PEM that generate_rsa_keypair_pem
\* returned, it is Ok with the modulus and the exponent of the key.
C15_PublicOrPrivateAccepted ==
    ((PublicPemOf(generated) \/ PrivatePemOf(generated)) /\ genExtracted # None) =>
        /\ genExtracted[1].ok
        /\ URL_SAFE_NO_PAD_decode(genExtracted[1].val[1])
               = <<to_bytes_be(rsaArgs.rng[1])>>
        /\ URL_SAFE_NO_PAD_decode(genExtracted[1].val[2])
               = <<to_bytes_be(RsaExponent)>>

\* what the code does with the private PEM of a generated key
C15_PrivatePemRejected ==
    /\ PrivatePemOf(generated)
    /\ genExtracted = <<[ok |-> FALSE, err |-> <<"MissingRsaParams">>]>>

\* what a call returns when it runs alone
Alone(fn, text) ==
    IF fn = "extract_rsa_n_e"
    THEN extract_rsa_n_e(text)
    ELSE extract_es256_coordinates(text)

\* the locals of a call hold what its own text gives, whatever the other
\* calls are doing
OwnLocals(call) ==
    /\ call.public_key # None =>
           /\ call.fn = "extract_rsa_n_e" =>
                  /\ call.pem_data.der.algorithm = "rsaEncryption"
                  /\ call.public_key[1] =
                         [n |-> call.pem_data.der.n, e |-> call.pem_data.der.e]
           /\ call.fn = "extract_es256_coordinates" =>
                  /\ call.pem_data.der.algorithm = "id-ecPublicKey"
                  /\ call.public_key[1] = [point |-> call.pem_data.der.point]
    /\ call.bytes # None =>
           /\ call.fn = "extract_rsa_n_e" =>
                  /\ from_bytes_be(call.bytes[1][1]) = call.pem_data.der.n
                  /\ from_bytes_be(call.bytes[1][2]) = call.pem_data.der.e
           /\ call.fn = "extract_es256_coordinates" =>
                  /\ call.bytes[1][1] = call.pem_data.der.point.x
                  /\ call.bytes[1][2] = call.pem_data.der.point.y

\* C16: under every interleaving of concurrent calls of extract_rsa_n_e and
\* extract_es256_coordinates, a finished call has returned what it returns
\* when run alone on its text, two finished calls of the same function on the
\* same text have returned the same result, and the locals of each call come
\* from its own text only.
C16_ConcurrentCallsAsAlone ==
    /\ \A t \in DOMAIN threads :
        /\ OwnLocals(threads[t])
        /\ threads[t].pc = "done" =>
               threads[t].result = <<Alone(threads[t].fn, threads[t].pem_data)>>
        /\ threads[t].pc # "done" => threads[t].result = None
    /\ \A t, u \in DOMAIN threads :
        (/\ threads[t].pc = "done" /\ threads[u].pc = "done"
         /\ threads[t].fn = threads[u].fn
         /\ threads[t].pem_data = threads[u].pem_data)
            => threads[t].result = threads[u].result

\* two calls of extract_rsa_n_e on two keys overlap: one has finished with
\* its own modulus while the other is between its parse and its encoding
C16_Witness ==
    /\ scenario = "threads"
    /\ \E t, u \in DOMAIN threads :
        /\ threads[t].fn = "extract_rsa_n_e" /\ threads[u].fn = "extract_rsa_n_e"
        /\ threads[t].pem_data.der = RsaSpki(3233, 65537)
        /\ threads[u].pem_data.der = RsaSpki(187, 3)
        /\ threads[t].pc = "done"
        /\ threads[t].result = <<[ok |-> TRUE, val |-> <<"DKE", "AQAB">>]>>
        /\ threads[u].pc = "encode"

\* what build returns for a key type and the last argument of each setter
ResultOf(kty, args) ==
    IF kty = "RSA" /\ (args["n"] = <<>> \/ args["e"] = <<>>)
    THEN [ok |-> FALSE, err |-> <<"MissingRsaParams">>]
    ELSE IF kty = "EC" /\ (args["crv"] = <<>> \/ args["x"] = <<>> \/ args["y"] = <<>>)
    THEN [ok |-> FALSE, err |-> <<"MissingEcParams">>]
    ELSE IF kty \notin {"RSA", "EC"}
    THEN [ok |-> FALSE, err |-> <<"UnsupportedKeyType", kty>>]
    ELSE [ok |-> TRUE,
          val |-> [f \in {"kty"} \cup OptFieldSet |->
                      IF f = "kty" THEN kty ELSE args[f]]]

\* two setters applied to the builder with two different arguments give the
\* same builder in either order
Commute(F(_, _), G(_, _)) ==
    \A v \in Values : \A w \in Values \ {v} :
        G(F(builder, v), w) = F(G(builder, w), v)

\* every value of the builder is first reached by calling each setter of a
\* set field once
EachSetterOnce ==
    /\ phase = "Building"
    /\ calls = Cardinality({f \in OptFieldSet : lastArg[f] # None})

\* C17: a setter changes the field it is named after and no other; kty is
\* the argument of new for good; two setters of distinct fields give the same
\* builder in either order; what build returns is determined by the key type
\* and the last argument of each setter.  Whatever the order of the calls,
\* each field holds the last argument of its own setter (so a call of another
\* setter left it alone).
C17_SettersFrame ==
    /\ builder.kty = newArg
    /\ \A f \in OptFieldSet : builder[f] = lastArg[f]
    /\ Built => result[1] = ResultOf(newArg, lastArg)
    /\ EachSetterOnce =>
        /\ Commute(use_, alg) /\ Commute(use_, kid)
        /\ Commute(use_, n) /\ Commute(use_, e)
        /\ Commute(use_, crv) /\ Commute(use_, x)
        /\ Commute(use_, y) /\ Commute(use_, d)
        /\ Commute(alg, kid) /\ Commute(alg, n)
        /\ Commute(alg, e) /\ Commute(alg, crv)
        /\ Commute(alg, x) /\ Commute(alg, y)
        /\ Commute(alg, d)
        /\ Commute(kid, n) /\ Commute(kid, e)
        /\ Commute(kid, crv) /\ Commute(kid, x)
        /\ Commute(kid, y) /\ Commute(kid, d)
        /\ Commute(n, e) /\ Commute(n, crv)
        /\ Commute(n, x) /\ Commute(n, y)
        /\ Commute(n, d)
        /\ Commute(e, crv) /\ Commute(e, x)
        /\ Commute(e, y) /\ Commute(e, d)
        /\ Commute(crv, x) /\ Commute(crv, y)
        /\ Commute(crv, d)
        /\ Commute(x, y) /\ Commute(x, d)
        /\ Commute(y, d)

\* an "EC" builder after e and then n were set, in that order of last calls
\* or the other: n and e hold their values, crv, x and y are untouched
C17_Witness ==
    /\ phase = "Building" /\ newArg = "EC" /\ builder.kty = "EC"
    /\ calls = 3
    /\ builder.n = <<"v1">> /\ builder.e = <<"">>
    /\ \A f \in OptFieldSet \ {"n", "e"} : builder[f] = None

\* names a curve field can be given
CurveNames == {"", "P-256", "P-384", "secp256k1", "not a curve"}

\* C18: build looks at the presence of the mandatory fields and not at what
\* they hold: an RSA builder whose n and e are set builds whatever the
\* strings (both empty among them), an EC builder whose x and y are set
\* builds with any curve name, and the Jwk carries the strings as given;
\* build returns neither UnsupportedCurve nor Base64EncodingError.
C18_PresenceOnly ==
    /\ Built =>
        /\ (newArg = "RSA" /\ lastArg["n"] # None /\ lastArg["e"] # None) =>
               /\ result[1].ok
               /\ result[1].val.n = lastArg["n"] /\ result[1].val.e = lastArg["e"]
        /\ (newArg = "EC" /\ lastArg["crv"] # None /\ lastArg["x"] # None
                /\ lastArg["y"] # None) =>
               /\ result[1].ok
               /\ result[1].val.crv = lastArg["crv"]
               /\ result[1].val.x = lastArg["x"] /\ result[1].val.y = lastArg["y"]
        /\ ~result[1].ok =>
               result[1].err[1] \notin {"UnsupportedCurve", "Base64EncodingError"}
    /\ (phase = "Building" /\ builder.kty = "EC"
            /\ builder.x # None /\ builder.y # None) =>
           \A name \in CurveNames :
               LET r == build(crv(builder, name))
               IN  r.ok /\ r.val.crv = <<name>> /\ r.val.x = builder.x

\* an "RSA" builder whose n and e are both the empty string was built
C18_Witness ==
    /\ Built /\ newArg = "RSA"
    /\ lastArg["n"] = <<"">> /\ lastArg["e"] = <<"">>
    /\ result[1].ok
    /\ result[1].val.n = <<"">> /\ result[1].val.e = <<"">>

\* an "EC" builder whose crv, x and y are the empty string was built
C18_WitnessEc ==
    /\ Built /\ newArg = "EC"
    /\ lastArg["crv"] = <<"">> /\ lastArg["x"] = <<"">> /\ lastArg["y"] = <<"">>
    /\ result[1].ok

\* C19: the two copies of a function return the same result for the same
\* input: extract_rsa_n_e of jwk and of generator::rsa for every text,
\* extract_es256_coordinates of jwk and of generator::ecdsa likewise, and
\* generate_rsa_keypair_pem of cryptography::rsa and of generator::rsa for the
\* same bit size and the same answers of the library.
C19_CopiesAgree ==
    /\ (extracted # None /\ genExtracted # None) => extracted = genExtracted
    /\ (extractedEc # None /\ genExtractedEc # None) => extractedEc = genExtractedEc
    /\ (generated # None /\ cryptoGenerated # None) => generated = cryptoGenerated

\* both copies of extract_rsa_n_e were handed the same private-key text and
\* both returned MissingRsaParams
C19_Witness ==
    /\ scenario = "extract"
    /\ pem.label = "PRIVATE KEY" /\ pem.der.form = "pkcs8" /\ ~pem.truncated
    /\ pem.der.algorithm = "rsaEncryption"
    /\ extracted # None /\ genExtracted # None
    /\ extracted = genExtracted
    /\ ~extracted[1].ok

\* both copies of generate_rsa_keypair_pem returned the same pair
C19_WitnessGenerate ==
    /\ scenario = "generate"
    /\ generated # None /\ cryptoGenerated # None
    /\ generated[1].ok /\ cryptoGenerated = generated

\* both copies of extract_es256_coordinates returned the same coordinates
C19_WitnessEc ==
    /\ extractedEc # None /\ genExtractedEc # None
    /\ extractedEc[1].ok /\ genExtractedEc = extractedEc

\* a Result: Ok with a value, or Err with one error of the kinds given
OkOrErrOf(r, kinds) ==
    IF r.ok
    THEN DOMAIN r = {"ok", "val"}
    ELSE /\ DOMAIN r = {"ok", "err"}
         /\ r.err[1] \in kinds
         /\ r.err[1] \notin {"PemReadError", "PemWriteError", "RsaParseError",
                             "EcParseError", "Base64EncodingError",
                             "UnsupportedCurve"}

\* C20: every call ends in Ok or in one error, and the error is of the kinds
\* of its operation: build MissingRsaParams, MissingEcParams or
\* UnsupportedKeyType; extract_rsa_n_e MissingRsaParams;
\* extract_es256_coordinates MissingEcParams, MissingEcX or MissingEcY; the
\* generators KeyGenerationFailed; never PemReadError, PemWriteError,
\* RsaParseError, EcParseError, Base64EncodingError or UnsupportedCurve.
C20_ErrorKinds ==
    /\ result # None =>
           OkOrErrOf(result[1],
                     {"MissingRsaParams", "MissingEcParams", "UnsupportedKeyType"})
    /\ \A r \in {extracted, genExtracted} :
           r # None => OkOrErrOf(r[1], {"MissingRsaParams"})
    /\ \A r \in {extractedEc, genExtractedEc} :
           r # None =>
               OkOrErrOf(r[1], {"MissingEcParams", "MissingEcX", "MissingEcY"})
    /\ \A r \in {generated, generatedEc} :
           r # None => OkOrErrOf(r[1], {"KeyGenerationFailed"})
    /\ \A t \in DOMAIN threads :
           threads[t].result # None =>
               OkOrErrOf(threads[t].result[1],
                         IF threads[t].fn = "extract_rsa_n_e"
                         THEN {"MissingRsaParams"}
                         ELSE {"MissingEcParams", "MissingEcX", "MissingEcY"})

\* a key pair whose public key could not be encoded: the ES256 generator
\* returned KeyGenerationFailed
C20_Witness ==
    /\ scenario = "generate"
    /\ ecArgs.private_pem /\ ~ecArgs.public_pem
    /\ generatedEc = <<[ok |-> FALSE, err |-> <<"KeyGenerationFailed">>]>>

\* a builder of key type "OCT" was built: UnsupportedKeyType
C20_WitnessBuild ==
    /\ scenario = "builder"
    /\ result = <<[ok |-> FALSE, err |-> <<"UnsupportedKeyType", "OCT">>]>>

\* a truncated text went through both extractors of src/src/jwk.rs
C20_WitnessExtract ==
    /\ scenario = "extract"
    /\ pem.truncated
    /\ extracted = <<[ok |-> FALSE, err |-> <<"MissingRsaParams">>]>>
    /\ extractedEc = <<[ok |-> FALSE, err |-> <<"MissingEcParams">>]>>
=============================================================================
